---- MODULE Spec2Model ----
(***************************************************************************)
(* YASM intermediate representation core: the symbol table (src/symrec.c)  *)
(* and the bytecode utility functions.                                     *)
(*                                                                         *)
(* Pointers are integers: 0 is NULL, expressions handed to the symbol      *)
(* table and object-format payloads are numbered from 1 in the order they  *)
(* are handed in, sections likewise.  A section pointer read back through  *)
(* the `expn' member                                                       *)
(* of the value union is written -sect, so that it is distinguishable from *)
(* every expression.                                                       *)
(***************************************************************************)
EXTENDS Integers, Sequences, FiniteSets, TLC

\* ---------------------------------------------------------------- bounds
\* calls made on the symbol table in one run
MaxOps == 3
\* lines of the input file
MaxLine == 2

Names == {"a", "b"}
\* key order of the ternary tree
NameOrder == <<"a", "b">>
Files == {"x.asm"}
Lines == 1..MaxLine
Sects == {1}

NULL == 0
\* limits.h: the largest unsigned long (here the largest integer TLC holds)
ULONG_MAX == 2147483647

\* SymStatus
SYM_USED == "SYM_USED"
SYM_DEFINED == "SYM_DEFINED"
SYM_VALUED == "SYM_VALUED"
SYM_NOTINTABLE == "SYM_NOTINTABLE"
\* SymType
SYM_UNKNOWN == "SYM_UNKNOWN"
SYM_EQU == "SYM_EQU"
SYM_LABEL == "SYM_LABEL"
\* SymVisibility (SYM_LOCAL is the empty bit set)
SYM_GLOBAL == "SYM_GLOBAL"
SYM_COMMON == "SYM_COMMON"
SYM_EXTERN == "SYM_EXTERN"
SYM_LOCAL == {}
Visibilities == {SYM_GLOBAL, SYM_COMMON, SYM_EXTERN}

VARIABLES
    sym_table,          \* name -> symrec, the ternary tree
    nit,                \* the live symrecs that are not in sym_table
    in_filename,        \* globals.h: current file
    line_number,        \* globals.h: current line
    firstundef_line,
    firstundef_filename,
    errors,             \* diagnostics of the last call, in order
    visited,            \* symrec ids visited by the last traversal
    ret,                \* id of the symrec the last call returned (0: none)
    last,               \* the last call and its arguments
    expr_deleted,       \* pointer -> number of expr_delete calls on it
    data_deleted,       \* payload -> number of declare_data_delete calls
    name_freed,         \* symrec id -> number of xfree calls on its name
    nexpr, ndata, nsym, \* allocation counters
    origin,             \* name -> line of its first use and line of the
                        \* call that set SYM_DEFINED (0: none yet)
    nops                \* calls made so far

symvars == <<sym_table, nit, in_filename, line_number, firstundef_line,
             firstundef_filename, errors, visited, ret, last, expr_deleted,
             data_deleted, name_freed, nexpr, ndata, nsym, origin, nops>>

VARIABLES
    type_max,           \* cur_arch->bc.type_max
    cur,                \* the bytecode the parser holds, not in a list
    headp,              \* the section's bytecode list
    datahead,           \* the data-value list the parser is building
    released,           \* object -> number of expr_delete/xfree calls on it
    arch_calls,         \* dispatch-table calls of the last operation
    out,                \* what the last operation printed
    fatal,              \* InternalError has aborted the run
    mult_given,         \* bytecode id -> the expressions given to set_multiple
    bc_ret,             \* id of the bytecode the last call returned (0: none)
    bc_last,            \* the last bytecode operation and its operand
    nalloc,             \* allocation counter
    nbops               \* bytecode operations made so far

bcvars == <<type_max, cur, headp, datahead, released, arch_calls, out, fatal,
            mult_given, bc_ret, bc_last, nalloc, nbops>>

vars == <<symvars, bcvars>>

ExprPtrs == {0 - s : s \in Sects} \cup (1..MaxOps)

\* the value union of struct symrec: u names the member written last
ValueUninit == [u |-> "uninit", expn |-> NULL, sect |-> NULL, bc |-> NULL]
ValueExpn(e) == [u |-> "expn", expn |-> e, sect |-> NULL, bc |-> NULL]
ValueLabel(sect, bc) == [u |-> "label", expn |-> NULL, sect |-> sect, bc |-> bc]

\* sym->value.expn: the first word of the union, whichever member wrote it
ReadExpn(sym) ==
    IF sym.value.u = "expn" THEN sym.value.expn
    ELSE IF sym.value.u = "label" THEN 0 - sym.value.sect
    ELSE NULL

NoCall == [op |-> "none", name |-> "", vis |-> "", arg |-> NULL, in_table |-> TRUE]
Call(op, name, vis, arg, in_table) ==
    [op |-> op, name |-> name, vis |-> vis, arg |-> arg, in_table |-> in_table]

\* Error()/ErrorAt(): one diagnostic; cited is the line the message quotes
Diag(msg, name, cited, file, line) ==
    [msg |-> msg, name |-> name, cited |-> cited, file |-> file, line |-> line]

\* bytecode_type, and the first tag left to the architecture
BC_EMPTY == 0
BC_DATA == 1
BC_RESERVE == 2
BYTECODE_TYPE_BASE == 3

\* bytecode operations in one run
MaxBcOps == 6
\* the largest tag a bytecode is created with
MaxTag == 4
Tags == 0..MaxTag
TypeMaxes == BYTECODE_TYPE_BASE..MaxTag

\* expressions: << >> is the null expression, <<"e", i>> the expression
\* object i, <<"*", l, r>> the tree expr_new_tree(l, EXPR_MUL, r)
NullExpr == << >>
ExprIdent(i) == <<"e", i>>
expr_new_tree(l, r) == <<"*", l, r>>

\* the expression objects expr_delete destroys with the tree e
RECURSIVE ExprObjects(_)
ExprObjects(e) ==
    IF e = NullExpr THEN << >>
    ELSE IF e[1] = "e" THEN <<e[2]>>
    ELSE ExprObjects(e[2]) \o ExprObjects(e[3])

NoBc == [id |-> 0, type |-> BC_EMPTY, multiple |-> NullExpr,
         datahead |-> << >>, size |-> 0, numitems |-> NullExpr, itemsize |-> 0]

BcInit ==
    /\ cur = NoBc
    /\ headp = << >>
    /\ datahead = << >>
    /\ released = << >>
    /\ arch_calls = << >>
    /\ out = << >>
    /\ fatal = FALSE
    /\ mult_given = << >>
    /\ bc_ret = 0
    /\ bc_last = [op |-> "none", bc |-> NoBc]
    /\ nalloc = 0
    /\ nbops = 0

SymInit ==
    /\ sym_table = << >>
    /\ nit = {}
    /\ in_filename \in Files
    /\ line_number = 1
    /\ firstundef_line = 0
    /\ firstundef_filename = NULL
    /\ errors = << >>
    /\ visited = << >>
    /\ ret = 0
    /\ last = NoCall
    /\ expr_deleted = [p \in ExprPtrs |-> 0]
    /\ data_deleted = [p \in 1..MaxOps |-> 0]
    /\ name_freed = [i \in 1..MaxOps |-> 0]
    /\ nexpr = 0
    /\ ndata = 0
    /\ nsym = 0
    /\ origin = [n \in Names |-> [use |-> 0, def |-> 0]]
    /\ nops = 0

\* one translation run on the symbol table
Init ==
    /\ SymInit
    /\ BcInit
    /\ type_max = BYTECODE_TYPE_BASE

\* the parser moves on to the next line of the input
parser_advance ==
    /\ line_number < MaxLine
    /\ line_number' = line_number + 1
    /\ UNCHANGED <<bcvars, sym_table, nit, in_filename, firstundef_line,
                   firstundef_filename, errors, visited, ret, last,
                   expr_deleted, data_deleted, name_freed, nexpr, ndata, nsym,
                   origin, nops>>

\* one more call on the symbol table
Step ==
    /\ nops < MaxOps
    /\ nops' = nops + 1

\* ternary_insert(&sym_table, name, rec, 0) finds name
InTable(name) == name \in DOMAIN sym_table

\* symrec_get_or_new searching the tree whatever in_table says
symrec_get_or_new_Lookup(name, in_table) ==
    IF InTable(name)
    THEN sym_table[name]
    ELSE [id |-> nsym + 1,
          name |-> name,
          type |-> SYM_UNKNOWN,
          status |-> IF in_table THEN {} ELSE {SYM_NOTINTABLE},
          visibility |-> SYM_LOCAL,
          filename |-> in_filename,
          line |-> line_number,
          value |-> ValueUninit,
          of_data_vis_ce |-> NULL,
          of_data_vis_g |-> NULL]

symrec_get_or_new(name, in_table) ==
    IF in_table /\ InTable(name)
    THEN sym_table[name]
    ELSE [id |-> nsym + 1,
          name |-> name,
          type |-> SYM_UNKNOWN,
          status |-> IF in_table THEN {} ELSE {SYM_NOTINTABLE},
          visibility |-> SYM_LOCAL,
          filename |-> in_filename,
          line |-> line_number,
          value |-> ValueUninit,
          of_data_vis_ce |-> NULL,
          of_data_vis_g |-> NULL]

\* the record is new: one more allocation
Allocates(name, in_table) == ~(in_table /\ InTable(name))

\* the tree after the call: a new record is linked in under its name
Linked(rec, in_table) ==
    IF in_table THEN (rec.name :> rec) @@ sym_table ELSE sym_table

NitAfter(rec, in_table) ==
    IF in_table THEN nit ELSE nit \cup {rec}

symrec_use(name) ==
    LET rec0 == symrec_get_or_new(name, TRUE)
        rec == [rec0 EXCEPT !.status = @ \cup {SYM_USED}]
    IN  /\ Step
        /\ sym_table' = Linked(rec, TRUE)
        /\ nsym' = IF Allocates(name, TRUE) THEN nsym + 1 ELSE nsym
        /\ errors' = << >>
        /\ visited' = << >>
        /\ ret' = rec.id
        /\ last' = Call("use", name, "", NULL, TRUE)
        /\ origin' = IF origin[name].use = 0
                      THEN [origin EXCEPT ![name].use = line_number]
                      ELSE origin
        /\ UNCHANGED <<bcvars, nit, in_filename, line_number, firstundef_line,
                       firstundef_filename, expr_deleted, data_deleted,
                       name_freed, nexpr, ndata>>

\* the record of first lines after a call on name: sets tells whether the
\* call set SYM_DEFINED on the table symbol
OriginDefined(name, sets) ==
    IF sets THEN [origin EXCEPT ![name].def = line_number] ELSE origin

\* the first-defined-on-line diagnostic of symrec_define and symrec_declare
DuplicateError(name, rec) ==
    Diag("duplicate definition", name, rec.line, in_filename, line_number)

\* symrec_define without the test of SYM_DEFINED
symrec_define_Redefine(name, type, in_table) ==
    [rec |-> [symrec_get_or_new(name, in_table)
                 EXCEPT !.line = line_number,
                        !.type = type,
                        !.status = @ \cup {SYM_DEFINED}],
     err |-> << >>]

\* the record after the call, and the diagnostics it reported
symrec_define(name, type, in_table) ==
    LET rec == symrec_get_or_new(name, in_table)
    IN  IF SYM_DEFINED \in rec.status
        THEN [rec |-> rec, err |-> <<DuplicateError(name, rec)>>]
        ELSE [rec |-> [rec EXCEPT !.line = line_number,
                                  !.type = type,
                                  !.status = @ \cup {SYM_DEFINED}],
              err |-> << >>]

\* rec->value.expn = e; rec->status |= SYM_VALUED
EquStore(rec, e) ==
    [rec EXCEPT !.value = ValueExpn(e), !.status = @ \cup {SYM_VALUED}]

symrec_define_equ(name, e) ==
    LET d == symrec_define(name, SYM_EQU, TRUE)
        rec == EquStore(d.rec, e)
    IN  /\ Step
        /\ e = nexpr + 1
        /\ nexpr' = e
        /\ sym_table' = Linked(rec, TRUE)
        /\ nsym' = IF Allocates(name, TRUE) THEN nsym + 1 ELSE nsym
        /\ errors' = d.err
        /\ visited' = << >>
        /\ ret' = rec.id
        /\ last' = Call("define_equ", name, "", e, TRUE)
        /\ origin' = OriginDefined(name, d.err = << >>)
        /\ UNCHANGED <<bcvars, nit, in_filename, line_number, firstundef_line,
                       firstundef_filename, expr_deleted, data_deleted,
                       name_freed, ndata>>

\* rec->value.label.sect = sect; rec->value.label.bc = precbc
LabelStore(rec, sect, precbc) ==
    [rec EXCEPT !.value = ValueLabel(sect, precbc)]

symrec_define_label(name, sect, precbc, in_table) ==
    LET d == symrec_define(name, SYM_LABEL, in_table)
        rec == LabelStore(d.rec, sect, precbc)
    IN  /\ Step
        /\ sym_table' = Linked(rec, in_table)
        /\ nit' = NitAfter(rec, in_table)
        /\ nsym' = IF Allocates(name, in_table) THEN nsym + 1 ELSE nsym
        /\ errors' = d.err
        /\ visited' = << >>
        /\ ret' = rec.id
        /\ last' = Call("define_label", name, "", sect, in_table)
        /\ origin' = OriginDefined(name, in_table /\ d.err = << >>)
        /\ UNCHANGED <<bcvars, in_filename, line_number, firstundef_line,
                       firstundef_filename, expr_deleted, data_deleted,
                       name_freed, nexpr, ndata>>

\* symrec_declare without the exemption of an Extern symbol
DeclareConflict_NoExternExemption(rec, vis) ==
    \/ SYM_DEFINED \in rec.status
    \/ (SYM_COMMON \in rec.visibility /\ vis = SYM_EXTERN)
    \/ (SYM_EXTERN \in rec.visibility /\ vis = SYM_COMMON)

\* symrec_declare without the test of a Common declaration of an Extern
\* symbol
DeclareConflict_NoCommonOnExtern(rec, vis) ==
    \/ (SYM_DEFINED \in rec.status /\ SYM_EXTERN \notin rec.visibility)
    \/ (SYM_COMMON \in rec.visibility /\ vis = SYM_EXTERN)

\* the condition of the if in symrec_declare
DeclareConflict(rec, vis) ==
    \/ (SYM_DEFINED \in rec.status /\ SYM_EXTERN \notin rec.visibility)
    \/ (SYM_COMMON \in rec.visibility /\ vis = SYM_EXTERN)
    \/ (SYM_EXTERN \in rec.visibility /\ vis = SYM_COMMON)

\* the switch (vis) that stores of_data
DeclareStoreData(rec, vis, of_data) ==
    IF of_data = NULL THEN rec
    ELSE IF vis = SYM_GLOBAL THEN [rec EXCEPT !.of_data_vis_g = of_data]
    ELSE [rec EXCEPT !.of_data_vis_ce = of_data]

\* symrec_declare setting SYM_DEFINED whatever the visibility
DeclareAccept_AlwaysDefines(rec, vis, of_data) ==
    DeclareStoreData(
        [rec EXCEPT !.line = line_number,
                    !.visibility = @ \cup {vis},
                    !.status = @ \cup {SYM_DEFINED}],
        vis, of_data)

\* the else branch of symrec_declare
DeclareAccept(rec, vis, of_data) ==
    DeclareStoreData(
        [rec EXCEPT !.line = line_number,
                    !.visibility = @ \cup {vis},
                    !.status = IF vis \in {SYM_COMMON, SYM_EXTERN}
                               THEN @ \cup {SYM_DEFINED} ELSE @],
        vis, of_data)

\* symrec_declare dropping the rejected payload without destroying it
DeclareRejectDeletes_Leak(vis, of_data) == {}

\* the then branch: the payloads handed to declare_data_delete
DeclareRejectDeletes(vis, of_data) ==
    IF of_data # NULL THEN {of_data} ELSE {}

symrec_declare(name, vis, of_data) ==
    LET rec0 == symrec_get_or_new(name, TRUE)
        conflict == DeclareConflict(rec0, vis)
        rec == IF conflict THEN rec0 ELSE DeclareAccept(rec0, vis, of_data)
        dels == IF conflict THEN DeclareRejectDeletes(vis, of_data) ELSE {}
    IN  /\ Step
        /\ of_data # NULL => of_data = ndata + 1
        /\ ndata' = IF of_data # NULL THEN of_data ELSE ndata
        /\ sym_table' = Linked(rec, TRUE)
        /\ nsym' = IF Allocates(name, TRUE) THEN nsym + 1 ELSE nsym
        /\ errors' = IF conflict THEN <<DuplicateError(name, rec0)>> ELSE << >>
        /\ data_deleted' = [p \in DOMAIN data_deleted |->
                              IF p \in dels THEN data_deleted[p] + 1
                              ELSE data_deleted[p]]
        /\ visited' = << >>
        /\ ret' = rec.id
        /\ last' = Call("declare", name, vis, of_data, TRUE)
        /\ origin' = OriginDefined(name, /\ SYM_DEFINED \notin rec0.status
                                         /\ SYM_DEFINED \in rec.status)
        /\ UNCHANGED <<bcvars, nit, in_filename, line_number, firstundef_line,
                       firstundef_filename, expr_deleted, name_freed, nexpr>>

symrec_get_equ(sym) ==
    IF sym.type = SYM_EQU THEN ReadExpn(sym) ELSE NULL

symrec_get_visibility(sym) == sym.visibility

\* ternary_traverse: the table's records in key order
RECURSIVE TraverseFrom(_)
TraverseFrom(i) ==
    IF i > Len(NameOrder) THEN << >>
    ELSE (IF InTable(NameOrder[i]) THEN <<sym_table[NameOrder[i]]>> ELSE << >>)
         \o TraverseFrom(i + 1)

symrec_traverse == TraverseFrom(1)

\* should symrec_parser_finalize_checksym report sym
IsUndefined(sym) ==
    SYM_USED \in sym.status /\ SYM_DEFINED \notin sym.status

\* the visitor with the comparison of the lines turned around
symrec_parser_finalize_checksym_Later(sym, st) ==
    IF IsUndefined(sym)
    THEN [line |-> IF sym.line > st.line THEN sym.line ELSE st.line,
          filename |-> IF sym.line > st.line THEN sym.filename ELSE st.filename,
          errs |-> Append(st.errs,
                          Diag("undefined symbol", sym.name, NULL,
                               sym.filename, sym.line))]
    ELSE st

\* one call of the visitor on the running state st = [line, filename, errs]
symrec_parser_finalize_checksym(sym, st) ==
    IF IsUndefined(sym)
    THEN [line |-> IF sym.line < st.line THEN sym.line ELSE st.line,
          filename |-> IF sym.line < st.line THEN sym.filename ELSE st.filename,
          errs |-> Append(st.errs,
                          Diag("undefined symbol", sym.name, NULL,
                               sym.filename, sym.line))]
    ELSE st

RECURSIVE FinalizeFold(_, _)
FinalizeFold(syms, st) ==
    IF syms = << >> THEN st
    ELSE FinalizeFold(Tail(syms), symrec_parser_finalize_checksym(Head(syms), st))

\* the note after the traversal
FinalizeSummary(st) ==
    IF st.line < ULONG_MAX
    THEN <<Diag(" (Each undefined symbol is reported only once.)", "", NULL,
                st.filename, st.line)>>
    ELSE << >>

symrec_parser_finalize ==
    LET syms == symrec_traverse
        st == FinalizeFold(syms, [line |-> ULONG_MAX,
                                  filename |-> firstundef_filename,
                                  errs |-> << >>])
    IN  /\ Step
        /\ firstundef_line' = st.line
        /\ firstundef_filename' = st.filename
        /\ errors' = st.errs \o FinalizeSummary(st)
        /\ visited' = [i \in 1..Len(syms) |-> syms[i].id]
        /\ ret' = 0
        /\ last' = Call("parser_finalize", "", "", NULL, TRUE)
        /\ UNCHANGED <<bcvars, sym_table, nit, in_filename, line_number, expr_deleted,
                       data_deleted, name_freed, nexpr, ndata, nsym, origin>>

\* the pointers symrec_delete_one hands to expr_delete
DeleteOneExprs(sym) ==
    IF sym.type = SYM_EQU THEN {ReadExpn(sym)} \ {NULL} ELSE {}

\* the payloads symrec_delete_one hands to declare_data_delete, with the
\* number of calls on each
DeleteOneData(sym) ==
    LET g == IF sym.of_data_vis_g # NULL /\ SYM_GLOBAL \in sym.visibility
             THEN <<sym.of_data_vis_g>> ELSE << >>
        c == IF sym.of_data_vis_ce # NULL /\ SYM_COMMON \in sym.visibility
             THEN <<sym.of_data_vis_ce>> ELSE << >>
        ce_after == IF c # << >> THEN NULL ELSE sym.of_data_vis_ce
        e == IF ce_after # NULL /\ SYM_EXTERN \in sym.visibility
             THEN <<ce_after>> ELSE << >>
    IN  g \o c \o e

Count(seq, x) == Cardinality({i \in 1..Len(seq) : seq[i] = x})

\* the resource counters after symrec_delete_one on each record of syms
ExprDeletedAfter(syms) ==
    [p \in DOMAIN expr_deleted |->
        expr_deleted[p] + Cardinality({s \in syms : p \in DeleteOneExprs(s)})]

RECURSIVE SumCount(_, _)
SumCount(syms, p) ==
    IF syms = {} THEN 0
    ELSE LET s == CHOOSE x \in syms : TRUE
         IN  Count(DeleteOneData(s), p) + SumCount(syms \ {s}, p)

DataDeletedAfter(syms) ==
    [p \in DOMAIN data_deleted |-> data_deleted[p] + SumCount(syms, p)]

NameFreedAfter(syms) ==
    [i \in DOMAIN name_freed |->
        name_freed[i] + Cardinality({s \in syms : s.id = i})]

symrec_delete_one(syms) ==
    /\ expr_deleted' = ExprDeletedAfter(syms)
    /\ data_deleted' = DataDeletedAfter(syms)
    /\ name_freed' = NameFreedAfter(syms)

TableSyms == {sym_table[n] : n \in DOMAIN sym_table}

symrec_delete_all ==
    /\ Step
    /\ symrec_delete_one(TableSyms)
    /\ sym_table' = << >>
    /\ errors' = << >>
    /\ visited' = << >>
    /\ ret' = 0
    /\ last' = Call("delete_all", "", "", NULL, TRUE)
    /\ origin' = [n \in Names |-> [use |-> 0, def |-> 0]]
    /\ UNCHANGED <<bcvars, nit, in_filename, line_number, firstundef_line,
                   firstundef_filename, nexpr, ndata, nsym>>

\* symrec_delete without the test of SYM_NOTINTABLE
DeleteTargets_Always(sym) == {sym}

\* the records symrec_delete destroys
DeleteTargets(sym) ==
    IF SYM_NOTINTABLE \in sym.status THEN {sym} ELSE {}

symrec_delete(sym) ==
    /\ Step
    /\ symrec_delete_one(DeleteTargets(sym))
    /\ nit' = nit \ DeleteTargets(sym)
    /\ errors' = << >>
    /\ visited' = << >>
    /\ ret' = 0
    /\ last' = Call("delete", sym.name, "", sym.id, SYM_NOTINTABLE \notin sym.status)
    /\ UNCHANGED <<bcvars, sym_table, in_filename, line_number, firstundef_line,
                   firstundef_filename, nexpr, ndata, nsym, origin>>

Next ==
    \/ parser_advance
    \/ \E n \in Names : symrec_use(n)
    \/ \E n \in Names : symrec_define_equ(n, nexpr + 1)
    \/ \E n \in Names, s \in Sects, in_table \in BOOLEAN :
          symrec_define_label(n, s, NULL, in_table)
    \/ \E n \in Names, v \in Visibilities, d \in {NULL, ndata + 1} :
          symrec_declare(n, v, d)
    \/ symrec_parser_finalize
    \/ symrec_delete_all
    \/ \E sym \in TableSyms \cup nit : symrec_delete(sym)

\* ------------------------------------------------------------ bytecodes
Rel(id) == IF id \in DOMAIN released THEN released[id] ELSE 0

\* released after one more expr_delete/xfree on each object of ids
ReleasedAfter(ids) ==
    [id \in DOMAIN released \cup {ids[k] : k \in 1..Len(ids)} |->
        Rel(id) + Cardinality({k \in 1..Len(ids) : ids[k] = id})]

Given(id) == IF id \in DOMAIN mult_given THEN mult_given[id] ELSE << >>

\* one more bytecode operation; none once InternalError has aborted the run
BcStep ==
    /\ ~fatal
    /\ nbops < MaxBcOps
    /\ nbops' = nbops + 1

BcCall(op, bc) == [op |-> op, bc |-> bc]

\* a constructor or setter: nothing printed, dispatched or aborted
Quiet ==
    /\ arch_calls' = << >>
    /\ out' = << >>
    /\ fatal' = FALSE

bc_new_common(type) ==
    [NoBc EXCEPT !.id = nalloc + 1, !.type = type]

\* the parser, or an architecture constructor, makes a node of the given tag
new_common(type) ==
    /\ BcStep
    /\ cur = NoBc
    /\ type \notin {BC_DATA, BC_RESERVE}
    /\ cur' = bc_new_common(type)
    /\ nalloc' = nalloc + 1
    /\ bc_ret' = cur'.id
    /\ bc_last' = BcCall("new_common", cur')
    /\ Quiet
    /\ UNCHANGED <<symvars, type_max, headp, datahead, released, mult_given>>

dv_new_expr(expn) == [type |-> "DV_EXPR", ptr |-> expn]
dv_new_string(str_val) == [type |-> "DV_STRING", ptr |-> str_val]

\* dvs_append linking the value in at the head of the list
dvs_append_Head(dv) ==
    /\ BcStep
    /\ datahead' = <<dv>> \o datahead
    /\ nalloc' = nalloc + 1
    /\ bc_ret' = 0
    /\ bc_last' = BcCall("dvs_append", NoBc)
    /\ Quiet
    /\ UNCHANGED <<symvars, type_max, cur, headp, released, mult_given>>

\* dvs_append(headp, dv) of a fresh value
dvs_append(dv) ==
    /\ BcStep
    /\ datahead' = Append(datahead, dv)
    /\ nalloc' = nalloc + 1
    /\ bc_ret' = 0
    /\ bc_last' = BcCall("dvs_append", NoBc)
    /\ Quiet
    /\ UNCHANGED <<symvars, type_max, cur, headp, released, mult_given>>

bc_new_data(dvs, size) ==
    [bc_new_common(BC_DATA) EXCEPT !.datahead = dvs, !.size = size]

\* the parser wraps its data values; it starts a new list afterwards
new_data(size) ==
    /\ BcStep
    /\ cur = NoBc
    /\ cur' = bc_new_data(datahead, size)
    /\ datahead' = << >>
    /\ nalloc' = nalloc + 1
    /\ bc_ret' = cur'.id
    /\ bc_last' = BcCall("new_data", cur')
    /\ Quiet
    /\ UNCHANGED <<symvars, type_max, headp, released, mult_given>>

bc_new_reserve(numitems, itemsize) ==
    [bc_new_common(BC_RESERVE) EXCEPT !.numitems = numitems, !.itemsize = itemsize]

new_reserve(itemsize) ==
    /\ BcStep
    /\ cur = NoBc
    /\ cur' = bc_new_reserve(ExprIdent(nalloc + 2), itemsize)
    /\ nalloc' = nalloc + 2
    /\ bc_ret' = cur'.id
    /\ bc_last' = BcCall("new_reserve", cur')
    /\ Quiet
    /\ UNCHANGED <<symvars, type_max, headp, datahead, released, mult_given>>

\* bc_set_multiple where the last expression wins
bc_set_multiple_Replace(bc, e) == e

\* bc->multiple after bc_set_multiple(bc, e)
bc_set_multiple(bc, e) ==
    IF bc.multiple # NullExpr
    THEN expr_new_tree(bc.multiple, e)
    ELSE e

set_multiple(e) ==
    /\ BcStep
    /\ cur # NoBc
    /\ e = ExprIdent(nalloc + 1)
    /\ nalloc' = nalloc + 1
    /\ cur' = [cur EXCEPT !.multiple = bc_set_multiple(cur, e)]
    /\ mult_given' = (cur.id :> Append(Given(cur.id), e)) @@ mult_given
    /\ bc_ret' = 0
    /\ bc_last' = BcCall("set_multiple", cur')
    /\ Quiet
    /\ UNCHANGED <<symvars, type_max, headp, datahead, released>>

\* the objects dvs_delete releases: each value's expression or string
RECURSIVE dvs_delete(_)
dvs_delete(dvs) ==
    IF dvs = << >> THEN << >>
    ELSE (IF Head(dvs).type = "DV_EXPR" THEN ExprObjects(Head(dvs).ptr)
          ELSE IF Head(dvs).type = "DV_STRING" THEN <<Head(dvs).ptr>>
          ELSE << >>)
         \o dvs_delete(Tail(dvs))

\* the range check off by one
ArchType_Inclusive(type) == type <= type_max

\* is the tag one of the architecture's
ArchType(type) == type < type_max

\* the switch of bc_delete: [fatal, calls, rel]
BcDeleteKind(bc) ==
    IF bc.type = BC_EMPTY THEN [fatal |-> FALSE, calls |-> << >>, rel |-> << >>]
    ELSE IF bc.type = BC_DATA
    THEN [fatal |-> FALSE, calls |-> << >>, rel |-> dvs_delete(bc.datahead)]
    ELSE IF bc.type = BC_RESERVE
    THEN [fatal |-> FALSE, calls |-> << >>, rel |-> ExprObjects(bc.numitems)]
    ELSE IF ArchType(bc.type)
    THEN [fatal |-> FALSE, calls |-> <<<<"bc_delete", bc.id>>>>, rel |-> << >>]
    ELSE [fatal |-> TRUE, calls |-> << >>, rel |-> << >>]

\* bc_delete of a non-null bytecode; InternalError does not return
bc_delete(bc) ==
    LET k == BcDeleteKind(bc)
    IN  IF k.fatal THEN k
        ELSE [k EXCEPT !.rel = @ \o ExprObjects(bc.multiple) \o <<bc.id>>]

\* the switch of bc_print: [fatal, calls, out]
BcPrintKind(bc) ==
    IF bc.type = BC_EMPTY
    THEN [fatal |-> FALSE, calls |-> << >>, out |-> <<<<"_Empty_">>>>]
    ELSE IF bc.type = BC_DATA
    THEN [fatal |-> FALSE, calls |-> << >>,
          out |-> <<<<"_Data_", bc.size>>>> \o
                  [i \in 1..Len(bc.datahead) |->
                      <<bc.datahead[i].type, bc.datahead[i].ptr>>]]
    ELSE IF bc.type = BC_RESERVE
    THEN [fatal |-> FALSE, calls |-> << >>,
          out |-> <<<<"_Reserve_", bc.numitems, bc.itemsize>>>>]
    ELSE IF ArchType(bc.type)
    THEN [fatal |-> FALSE, calls |-> <<<<"bc_print", bc.id>>>>, out |-> << >>]
    ELSE [fatal |-> FALSE, calls |-> << >>, out |-> <<<<"_Unknown_">>>>]

bc_print(bc) ==
    LET k == BcPrintKind(bc)
    IN  IF k.fatal THEN k
        ELSE [k EXCEPT !.out = @ \o <<<<"Multiple=", bc.multiple>>>>]

\* bc_parser_finalize: [fatal, calls]
bc_parser_finalize(bc) ==
    IF bc.type = BC_EMPTY THEN [fatal |-> TRUE, calls |-> << >>]
    ELSE IF ArchType(bc.type)
    THEN [fatal |-> FALSE, calls |-> <<<<"bc_parser_finalize", bc.id>>>>]
    ELSE [fatal |-> TRUE, calls |-> << >>]

\* bc_delete(cur) on the bytecode the parser holds
delete_bc ==
    LET r == bc_delete(cur)
    IN  /\ BcStep
        /\ cur # NoBc
        /\ fatal' = r.fatal
        /\ arch_calls' = r.calls
        /\ released' = ReleasedAfter(r.rel)
        /\ out' = << >>
        /\ cur' = IF r.fatal THEN cur ELSE NoBc
        /\ bc_ret' = 0
        /\ bc_last' = BcCall("delete", cur)
        /\ UNCHANGED <<symvars, type_max, headp, datahead, mult_given, nalloc>>

print_bc ==
    LET r == bc_print(cur)
    IN  /\ BcStep
        /\ cur # NoBc
        /\ fatal' = r.fatal
        /\ arch_calls' = r.calls
        /\ out' = r.out
        /\ bc_ret' = 0
        /\ bc_last' = BcCall("print", cur)
        /\ UNCHANGED <<symvars, type_max, cur, headp, datahead, released,
                       mult_given, nalloc>>

finalize_bc ==
    LET r == bc_parser_finalize(cur)
    IN  /\ BcStep
        /\ cur # NoBc
        /\ fatal' = r.fatal
        /\ arch_calls' = r.calls
        /\ out' = << >>
        /\ bc_ret' = 0
        /\ bc_last' = BcCall("parser_finalize", cur)
        /\ UNCHANGED <<symvars, type_max, cur, headp, datahead, released,
                       mult_given, nalloc>>

\* what bcs_append releases when it does not store bc
BcsAppendDiscard(bc) == <<bc.id>>

\* bcs_append without the test of BC_EMPTY
bcs_append_StoreEmpty(list, bc) ==
    IF bc # NoBc
    THEN [list |-> Append(list, bc), ret |-> bc.id, rel |-> << >>]
    ELSE [list |-> list, ret |-> 0, rel |-> << >>]

\* bcs_append(headp, bc): [list, ret, rel]; NoBc stands for a null bc
bcs_append(list, bc) ==
    IF bc # NoBc
    THEN IF bc.type # BC_EMPTY
         THEN [list |-> Append(list, bc), ret |-> bc.id, rel |-> << >>]
         ELSE [list |-> list, ret |-> 0, rel |-> BcsAppendDiscard(bc)]
    ELSE [list |-> list, ret |-> 0, rel |-> << >>]

append_bc ==
    LET r == bcs_append(headp, cur)
    IN  /\ BcStep
        /\ headp' = r.list
        /\ bc_ret' = r.ret
        /\ released' = ReleasedAfter(r.rel)
        /\ cur' = NoBc
        /\ bc_last' = BcCall("bcs_append", cur)
        /\ Quiet
        /\ UNCHANGED <<symvars, type_max, datahead, mult_given, nalloc>>

\* the loop of bcs_delete from node i on: [fatal, calls, rel]
RECURSIVE BcsDeleteFrom(_, _)
BcsDeleteFrom(list, i) ==
    IF i > Len(list) THEN [fatal |-> FALSE, calls |-> << >>, rel |-> << >>]
    ELSE LET r == bc_delete(list[i])
         IN  IF r.fatal THEN r
             ELSE LET t == BcsDeleteFrom(list, i + 1)
                  IN  [fatal |-> t.fatal, calls |-> r.calls \o t.calls,
                       rel |-> r.rel \o t.rel]

bcs_delete ==
    LET r == BcsDeleteFrom(headp, 1)
    IN  /\ BcStep
        /\ fatal' = r.fatal
        /\ arch_calls' = r.calls
        /\ released' = ReleasedAfter(r.rel)
        /\ headp' = IF r.fatal THEN headp ELSE << >>
        /\ out' = << >>
        /\ bc_ret' = 0
        /\ bc_last' = BcCall("bcs_delete", NoBc)
        /\ UNCHANGED <<symvars, type_max, cur, datahead, mult_given, nalloc>>

\* the loop of bcs_print from node i on
RECURSIVE BcsPrintFrom(_, _)
BcsPrintFrom(list, i) ==
    IF i > Len(list) THEN [fatal |-> FALSE, calls |-> << >>, out |-> << >>]
    ELSE LET r == bc_print(list[i])
             t == BcsPrintFrom(list, i + 1)
         IN  [fatal |-> FALSE, calls |-> r.calls \o t.calls,
              out |-> <<<<"Next Bytecode:">>>> \o r.out \o t.out]

bcs_print ==
    LET r == BcsPrintFrom(headp, 1)
    IN  /\ BcStep
        /\ fatal' = r.fatal
        /\ arch_calls' = r.calls
        /\ out' = r.out
        /\ bc_ret' = 0
        /\ bc_last' = BcCall("bcs_print", NoBc)
        /\ UNCHANGED <<symvars, type_max, cur, headp, datahead, released,
                       mult_given, nalloc>>

\* the loop of bcs_parser_finalize going on after a fatal error
RECURSIVE BcsFinalizeFrom_GoOn(_, _)
BcsFinalizeFrom_GoOn(list, i) ==
    IF i > Len(list) THEN [fatal |-> FALSE, calls |-> << >>]
    ELSE LET r == bc_parser_finalize(list[i])
             t == BcsFinalizeFrom_GoOn(list, i + 1)
         IN  [fatal |-> r.fatal \/ t.fatal, calls |-> r.calls \o t.calls]

\* the loop of bcs_parser_finalize from node i on: [fatal, calls]
RECURSIVE BcsFinalizeFrom(_, _)
BcsFinalizeFrom(list, i) ==
    IF i > Len(list) THEN [fatal |-> FALSE, calls |-> << >>]
    ELSE LET r == bc_parser_finalize(list[i])
         IN  IF r.fatal THEN r
             ELSE LET t == BcsFinalizeFrom(list, i + 1)
                  IN  [fatal |-> t.fatal, calls |-> r.calls \o t.calls]

bcs_parser_finalize ==
    LET r == BcsFinalizeFrom(headp, 1)
    IN  /\ BcStep
        /\ fatal' = r.fatal
        /\ arch_calls' = r.calls
        /\ out' = << >>
        /\ bc_ret' = 0
        /\ bc_last' = BcCall("bcs_parser_finalize", NoBc)
        /\ UNCHANGED <<symvars, type_max, cur, headp, datahead, released,
                       mult_given, nalloc>>

BcNext ==
    \/ \E t \in Tags : new_common(t)
    \/ dvs_append(dv_new_expr(ExprIdent(nalloc + 1)))
    \/ dvs_append(dv_new_string(nalloc + 1))
    \/ \E size \in {1, 2} : new_data(size)
    \/ new_reserve(1)
    \/ set_multiple(ExprIdent(nalloc + 1))
    \/ delete_bc
    \/ print_bc
    \/ finalize_bc
    \/ append_bc
    \/ bcs_delete
    \/ bcs_print
    \/ bcs_parser_finalize

\* one run of the parser on a section's bytecodes
InitBc ==
    /\ SymInit
    /\ BcInit
    /\ type_max \in TypeMaxes

SpecBc == InitBc /\ [][BcNext]_vars

Spec == Init /\ [][Next]_vars
\* ------------------------------------------------------------- claims
\* a call on the symbol table is being made in this step
SymCall(op) == nops' = nops + 1 /\ last'.op = op
\* a bytecode operation is being made in this step
BcOp(op) == nbops' = nbops + 1 /\ bc_last'.op = op

\* C1: after define_equ(n, e1) followed by define_equ(n, e2), the second
\* call reports a duplicate definition citing the line of the first
\* definition, and get_equ on the symbol still returns e1.
C1_SecondDefineEquKeepsFirst ==
    [][\A n \in Names :
        (/\ last.op = "define_equ" /\ last.name = n /\ errors = << >>
         /\ SymCall("define_equ") /\ last'.name = n)
        => /\ Len(errors') = 1
           /\ errors'[1].msg = "duplicate definition"
           /\ errors'[1].cited = sym_table[n].line
           /\ symrec_get_equ(sym_table'[n]) = last.arg]_vars

\* C2: delete_all leaves the table empty with every expression handed to
\* define_equ and every payload handed to declare destroyed; a
\* finalize_parser_pass on the emptied table visits no symbol and reports
\* nothing.
C2_DeleteAllLeavesNothing ==
    /\ last.op = "delete_all" =>
          /\ sym_table = << >>
          /\ \A e \in 1..nexpr : expr_deleted[e] >= 1
          /\ \A d \in 1..ndata : data_deleted[d] >= 1
    /\ (last.op = "parser_finalize" /\ sym_table = << >>) =>
          (visited = << >> /\ errors = << >>)

\* C3: declare(name, vis, payload) reports a duplicate-definition conflict
\* exactly when the symbol is Defined and not Extern, or is Common and vis
\* is Extern, or is Extern and vis is Common; otherwise it reports nothing.
C3_DeclareConflictRule ==
    [][\A n \in Names, v \in Visibilities :
        (SymCall("declare") /\ last'.name = n /\ last'.vis = v)
        => LET known == n \in DOMAIN sym_table
               st == IF known THEN sym_table[n].status ELSE {}
               vs == IF known THEN sym_table[n].visibility ELSE {}
               conflict ==
                   \/ (SYM_DEFINED \in st /\ SYM_EXTERN \notin vs)
                   \/ (SYM_COMMON \in vs /\ v = SYM_EXTERN)
                   \/ (SYM_EXTERN \in vs /\ v = SYM_COMMON)
           IN  IF conflict
               THEN Len(errors') = 1 /\ errors'[1].msg = "duplicate definition"
               ELSE errors' = << >>]_vars

\* C3 witness: a Common declaration of an Extern symbol has been rejected
C3_Witness ==
    /\ last.op = "declare" /\ last.vis = SYM_COMMON
    /\ errors # << >>
    /\ SYM_EXTERN \in sym_table[last.name].visibility

\* C4: a declare that conflicts hands its non-null payload to the
\* object-format destructor exactly once, stores it in no slot, and leaves
\* every field of the symbol as it was.
C4_ConflictDestroysPayload ==
    [][\A n \in Names :
        (SymCall("declare") /\ last'.name = n /\ errors' # << >>)
        => /\ n \in DOMAIN sym_table
           /\ sym_table' = sym_table
           /\ \A d \in DOMAIN data_deleted :
                 data_deleted'[d] =
                     IF d = last'.arg THEN 1 ELSE data_deleted[d]
           /\ \A m \in DOMAIN sym_table' :
                 last'.arg # NULL =>
                    /\ sym_table'[m].of_data_vis_ce # last'.arg
                    /\ sym_table'[m].of_data_vis_g # last'.arg]_vars

\* C4 witness: a conflicting declare was given a payload, now destroyed
C4_Witness ==
    /\ last.op = "declare" /\ errors # << >>
    /\ last.arg # NULL
    /\ data_deleted[last.arg] = 1

UndefinedNames ==
    {n \in DOMAIN sym_table :
        SYM_USED \in sym_table[n].status /\ SYM_DEFINED \notin sym_table[n].status}

DiagCount(msg, name) ==
    Cardinality({i \in 1..Len(errors) :
                    errors[i].msg = msg /\ errors[i].name = name})

\* C5: finalize_parser_pass visits every table symbol, reports exactly one
\* undefined-symbol diagnostic for each symbol that is Used and not Defined
\* and none for any other, and then reports one summary note if and only
\* if there is such a symbol, at the smallest line among them.
C5_FinalizeReportsEachOnce ==
    last.op = "parser_finalize" =>
        LET U == UndefinedNames
            k == Cardinality(U)
        IN  /\ Len(visited) = Cardinality(DOMAIN sym_table)
            /\ \A n \in Names :
                  DiagCount("undefined symbol", n) = IF n \in U THEN 1 ELSE 0
            /\ Len(errors) = IF U = {} THEN 0 ELSE k + 1
            /\ U # {} =>
                  /\ errors[k + 1].msg = " (Each undefined symbol is reported only once.)"
                  /\ \E n \in U : errors[k + 1].line = sym_table[n].line
                  /\ \A n \in U : errors[k + 1].line <= sym_table[n].line

\* C5 witness: two undefined symbols, the one visited second on the
\* earlier line
C5_Witness ==
    /\ last.op = "parser_finalize"
    /\ UndefinedNames = {"a", "b"}
    /\ sym_table["b"].line < sym_table["a"].line

\* the release count of an object after the step
RelAfter(id) == IF id \in DOMAIN released' THEN released'[id] ELSE 0

\* C6: bcs_append of an Empty bytecode returns "not stored", leaves the list
\* as it was and destroys the node with everything it owns, its multiplier
\* included.
C6_AppendEmptyDestroysAll ==
    [][(BcOp("bcs_append") /\ cur # NoBc /\ cur.type = BC_EMPTY)
        => /\ bc_ret' = 0
           /\ headp' = headp
           /\ RelAfter(cur.id) = 1
           /\ \A k \in 1..Len(ExprObjects(cur.multiple)) :
                 RelAfter(ExprObjects(cur.multiple)[k]) = 1]_vars

BuiltIn(type) == type \in {BC_EMPTY, BC_DATA, BC_RESERVE}
\* a tag that is neither built in nor below the table's declared maximum
UnknownTag(type) == ~BuiltIn(type) /\ ~(type < type_max)

\* C7: finalize of an Empty bytecode is fatal; of a Data or Reserve
\* bytecode makes no dispatch-table call and is not fatal; of an Extended
\* bytecode below the declared maximum calls the table's finalize entry;
\* of any other tag is fatal.
C7_FinalizeByKind ==
    bc_last.op = "parser_finalize" =>
        LET bc == bc_last.bc
        IN  IF bc.type = BC_EMPTY THEN fatal
            ELSE IF bc.type \in {BC_DATA, BC_RESERVE}
            THEN ~fatal /\ arch_calls = << >>
            ELSE IF bc.type < type_max
            THEN ~fatal /\ arch_calls = <<<<"bc_parser_finalize", bc.id>>>>
            ELSE fatal /\ arch_calls = << >>

RECURSIVE Product(_)
Product(s) ==
    IF s = << >> THEN NullExpr
    ELSE IF Len(s) = 1 THEN s[1]
    ELSE <<"*", Product(SubSeq(s, 1, Len(s) - 1)), s[Len(s)]>>

Bytecodes == {cur} \cup {headp[i] : i \in 1..Len(headp)}

\* C9: the multiplier of a bytecode is the product, in call order, of all
\* the expressions set_multiple was given for it.
C9_MultipleIsProduct ==
    \A bc \in Bytecodes : bc.multiple = Product(Given(bc.id))

\* C9 witness: set_multiple has been called three times on a bytecode
C9_Witness ==
    /\ bc_last.op = "set_multiple"
    /\ Len(Given(cur.id)) = 3

\* C10: delete of a symbol of the table changes nothing, and the symbol is
\* still what use, define and declare of its name return; delete of a
\* not-in-table symbol destroys it and its name and leaves the table as it
\* was.
C10_DeleteOnlyNotInTable ==
    [][/\ SymCall("delete") =>
            IF \E n \in DOMAIN sym_table : sym_table[n].id = last'.arg
            THEN /\ sym_table' = sym_table /\ nit' = nit
                 /\ expr_deleted' = expr_deleted
                 /\ data_deleted' = data_deleted
                 /\ name_freed' = name_freed
            ELSE /\ sym_table' = sym_table
                 /\ \A s \in nit' : s.id # last'.arg
                 /\ \A s \in nit : s.id # last'.arg => s \in nit'
                 /\ name_freed'[last'.arg] = 1
       /\ \A n \in DOMAIN sym_table :
            (/\ nops' = nops + 1
             /\ last'.op \in {"use", "define_equ", "define_label", "declare"}
             /\ last'.name = n /\ last'.in_table)
            => ret' = sym_table[n].id /\ sym_table'[n].id = ret']_vars

\* C10 witness: a not-in-table symbol named like a table symbol is deleted
C10_Witness ==
    /\ last.op = "delete" /\ ~last.in_table
    /\ name_freed[last.arg] = 1
    /\ last.name \in DOMAIN sym_table

\* the object a data value owns
ValueObject(dv) == IF dv.type = "DV_EXPR" THEN dv.ptr[2] ELSE dv.ptr

\* the data values of the Data bytecodes of a list, in list order
RECURSIVE ListValues(_)
ListValues(list) ==
    IF list = << >> THEN << >>
    ELSE (IF Head(list).type = BC_DATA
          THEN [i \in 1..Len(Head(list).datahead) |->
                   <<Head(list).datahead[i].type, Head(list).datahead[i].ptr>>]
          ELSE << >>)
         \o ListValues(Tail(list))

IsValueLine(x) == x[1] \in {"DV_EMPTY", "DV_EXPR", "DV_STRING"}

\* C11: data values are linked in at the tail in the order they are
\* appended, new_data wraps exactly them, printing the bytecode list
\* enumerates exactly the values of its Data bytecodes in that order, and
\* bcs_delete empties the list and destroys each value's expression or
\* string once; nothing is ever destroyed twice.
C11_DataValuesRoundTrip ==
    /\ [](/\ bc_last.op = "bcs_print" =>
               SelectSeq(out, IsValueLine) = ListValues(headp)
          /\ \A b \in Bytecodes : \A i, j \in 1..Len(b.datahead) :
               i < j => ValueObject(b.datahead[i]) < ValueObject(b.datahead[j])
          /\ \A id \in DOMAIN released : released[id] <= 1)
    /\ [][/\ BcOp("dvs_append") =>
               /\ Len(datahead') = Len(datahead) + 1
               /\ SubSeq(datahead', 1, Len(datahead)) = datahead
               /\ ValueObject(datahead'[Len(datahead')]) = nalloc + 1
          /\ BcOp("new_data") => cur'.datahead = datahead
          /\ (BcOp("bcs_delete") /\ ~fatal') =>
               /\ headp' = << >>
               /\ \A k \in 1..Len(ListValues(headp)) :
                     RelAfter(ValueObject(
                         [type |-> ListValues(headp)[k][1],
                          ptr |-> ListValues(headp)[k][2]])) = 1]_vars

\* C11 witness: a list holding one Data bytecode of element size 2 with an
\* expression, a string and an expression has been printed
C11_Witness ==
    /\ bc_last.op = "bcs_print"
    /\ Len(headp) = 1
    /\ headp[1].type = BC_DATA /\ headp[1].size = 2
    /\ Len(headp[1].datahead) = 3
    /\ headp[1].datahead[1].type = "DV_EXPR"
    /\ headp[1].datahead[2].type = "DV_STRING"
    /\ headp[1].datahead[3].type = "DV_EXPR"

\* C12: a define_label on a name whose table symbol is already Defined
\* reports one duplicate-definition diagnostic and leaves the symbol's kind
\* and stored value as they were: after define_equ(n, e) the symbol is still
\* an Equ and get_equ still returns e.
C12_DefineLabelOnDefinedKeeps ==
    [][\A n \in Names :
        (/\ n \in DOMAIN sym_table
         /\ SYM_DEFINED \in sym_table[n].status
         /\ SymCall("define_label") /\ last'.name = n /\ last'.in_table)
        => /\ Len(errors') = 1
           /\ errors'[1].msg = "duplicate definition"
           /\ sym_table'[n].type = sym_table[n].type
           /\ symrec_get_equ(sym_table'[n]) = symrec_get_equ(sym_table[n])]_vars

\* C13: every undefined-symbol diagnostic of finalize_parser_pass is located
\* at the file and line of the first use of the symbol it names, whatever
\* declare calls were made on that name.
C13_UndefinedAtFirstUse ==
    last.op = "parser_finalize" =>
        \A i \in 1..Len(errors) :
            errors[i].msg = "undefined symbol" =>
                /\ errors[i].file = in_filename
                /\ errors[i].line = origin[errors[i].name].use

\* C14: a duplicate-definition diagnostic of define_equ, define_label or
\* declare cites the line of the call that first set Defined on the symbol,
\* whatever declare calls succeeded on it afterwards.
C14_DuplicateCitesOriginalLine ==
    [][\A n \in Names :
        (/\ \/ SymCall("define_equ") \/ SymCall("define_label") \/ SymCall("declare")
         /\ last'.name = n /\ last'.in_table
         /\ errors' # << >>)
        => /\ errors'[1].msg = "duplicate definition"
           /\ origin[n].def # 0
           /\ errors'[1].cited = origin[n].def]_vars

\* the fields of a symbol before a call on name n: those of the table's
\* record, or of the record symrec_get_or_new is about to create
Before(n) ==
    IF n \in DOMAIN sym_table THEN sym_table[n]
    ELSE [type |-> SYM_UNKNOWN, status |-> {}, visibility |-> SYM_LOCAL,
          of_data_vis_ce |-> NULL, of_data_vis_g |-> NULL]

\* C15: a declare(name, vis, payload) that does not conflict adds vis to the
\* visibility flags and removes none, has Defined set afterwards exactly
\* when it was set before or vis is Common or Extern, stores a non-null
\* payload in the global slot for Global and in the shared slot for Common
\* and Extern, leaving the other slot alone, and changes neither the kind
\* nor the Used or Valued flag.
C15_DeclareAcceptEffects ==
    [][\A n \in Names, v \in Visibilities :
        (SymCall("declare") /\ last'.name = n /\ last'.vis = v /\ errors' = << >>)
        => LET old == Before(n)
               new == sym_table'[n]
               p == last'.arg
           IN  /\ new.visibility = old.visibility \cup {v}
               /\ (SYM_DEFINED \in new.status) <=>
                     (SYM_DEFINED \in old.status \/ v \in {SYM_COMMON, SYM_EXTERN})
               /\ new.of_data_vis_g =
                     IF p # NULL /\ v = SYM_GLOBAL THEN p ELSE old.of_data_vis_g
               /\ new.of_data_vis_ce =
                     IF p # NULL /\ v # SYM_GLOBAL THEN p ELSE old.of_data_vis_ce
               /\ new.type = old.type
               /\ new.status \cap {SYM_USED, SYM_VALUED} =
                     old.status \cap {SYM_USED, SYM_VALUED}]_vars

\* C15 witness: a Global declaration with a payload was accepted on an
\* Extern symbol that holds an Extern payload
C15_Witness ==
    /\ last.op = "declare" /\ last.vis = SYM_GLOBAL /\ errors = << >>
    /\ last.arg # NULL
    /\ sym_table[last.name].visibility = {SYM_EXTERN, SYM_GLOBAL}
    /\ sym_table[last.name].of_data_vis_g = last.arg
    /\ sym_table[last.name].of_data_vis_ce \notin {NULL, last.arg}

\* C16: in every reachable state no symbol has both the Common and the
\* Extern visibility flag, and every Extern declaration of a Common symbol
\* and every Common declaration of an Extern symbol is rejected with a
\* duplicate-definition diagnostic.
C16_CommonExternExclusive ==
    /\ [](\A sym \in TableSyms \cup nit :
            ~(SYM_COMMON \in sym.visibility /\ SYM_EXTERN \in sym.visibility))
    /\ [][\A n \in Names :
            (/\ SymCall("declare") /\ last'.name = n
             /\ n \in DOMAIN sym_table
             /\ \/ (SYM_COMMON \in sym_table[n].visibility /\ last'.vis = SYM_EXTERN)
                \/ (SYM_EXTERN \in sym_table[n].visibility /\ last'.vis = SYM_COMMON))
            => /\ errors' # << >>
               /\ sym_table'[n].visibility = sym_table[n].visibility]_vars

\* C16 witness: an Extern declaration of a Common symbol has been rejected
C16_Witness ==
    /\ last.op = "declare" /\ last.vis = SYM_EXTERN
    /\ errors # << >>
    /\ SYM_COMMON \in sym_table[last.name].visibility
    /\ SYM_EXTERN \notin sym_table[last.name].visibility

\* C17: a symbol enters the table with kind Unknown unless a defining call
\* creates it; only define_equ and define_label change a kind, and only
\* from Unknown, so no later call on the name changes a kind once assigned;
\* every table symbol whose kind is not Unknown is Defined, and Defined is
\* not cleared while the symbol is in the table.
C17_KindAssignedOnce ==
    /\ [](\A sym \in TableSyms :
            sym.type # SYM_UNKNOWN => SYM_DEFINED \in sym.status)
    /\ [][\A n \in DOMAIN sym_table' :
            LET old == Before(n)
                new == sym_table'[n]
            IN  /\ old.type # SYM_UNKNOWN => new.type = old.type
                /\ SYM_DEFINED \in old.status => SYM_DEFINED \in new.status
                /\ new.type # old.type =>
                      /\ last'.name = n
                      /\ \/ SymCall("define_equ") /\ new.type = SYM_EQU
                         \/ SymCall("define_label") /\ new.type = SYM_LABEL]_vars

\* C17 witness: a define_label on an Equ symbol was rejected and the symbol
\* is still an Equ
C17_Witness ==
    /\ last.op = "define_label" /\ last.in_table
    /\ errors # << >>
    /\ sym_table[last.name].type = SYM_EQU

\* the ids of the records in the table
TableIds == {sym_table[n].id : n \in DOMAIN sym_table}

\* the last call was a lookup in the table: use, define_equ, declare, or
\* define_label with insert_into_table set
TableLookup ==
    \/ last.op \in {"use", "define_equ", "declare"}
    \/ (last.op = "define_label" /\ last.in_table)

\* C18: define_label with insert_into_table = false reports nothing, leaves
\* the table and every live not-in-table symbol as they were, and returns a
\* new record of that name carrying the not-in-table status, whatever
\* symbols of the same name exist; no not-in-table record is a record of
\* the table, none is returned by a use, define or declare, and none is
\* visited by finalize_parser_pass.
C18_NotInTableIsFresh ==
    /\ [](/\ \A sym \in TableSyms : SYM_NOTINTABLE \notin sym.status
          /\ \A sym \in nit : SYM_NOTINTABLE \in sym.status /\ sym.id \notin TableIds
          /\ TableLookup => ret = sym_table[last.name].id
          /\ \A i \in 1..Len(visited) : visited[i] \in TableIds)
    /\ [][(SymCall("define_label") /\ ~last'.in_table)
          => /\ errors' = << >>
             /\ sym_table' = sym_table
             /\ nit \subseteq nit'
             /\ ret' \notin {sym.id : sym \in nit} \cup TableIds
             /\ \E sym \in nit' \ nit :
                   /\ nit' = nit \cup {sym}
                   /\ sym.id = ret'
                   /\ sym.name = last'.name
                   /\ SYM_NOTINTABLE \in sym.status
                   /\ sym.type = SYM_LABEL]_vars

\* C18 witness: a not-in-table label was created under a name that a
\* Defined table symbol and another not-in-table symbol already have
C18_Witness ==
    /\ last.op = "define_label" /\ ~last.in_table
    /\ last.name \in DOMAIN sym_table
    /\ SYM_DEFINED \in sym_table[last.name].status
    /\ Cardinality({sym \in nit : sym.name = last.name}) = 2
    /\ errors = << >>

\* C19: the bytecode list never holds an Empty node; bcs_append of a
\* non-Empty bytecode puts that bytecode last, after the nodes already
\* there, and returns it; bcs_append of an Empty or of a null bytecode
\* leaves the list as it was and returns null; a bcs_delete that returns
\* leaves the list empty; no other operation changes the list.
C19_ListHoldsAppendedInOrder ==
    /\ [](\A i \in 1..Len(headp) : headp[i] # NoBc /\ headp[i].type # BC_EMPTY)
    /\ [][/\ BcOp("bcs_append") =>
                IF cur # NoBc /\ cur.type # BC_EMPTY
                THEN /\ headp' = headp \o <<cur>>
                     /\ bc_ret' = headp'[Len(headp')].id
                     /\ bc_ret' = cur.id
                ELSE headp' = headp /\ bc_ret' = NULL
          /\ (BcOp("bcs_delete") /\ ~fatal') => headp' = << >>
          /\ ~(BcOp("bcs_append") \/ BcOp("bcs_delete")) => headp' = headp]_vars

\* C19 witness: a second bytecode was appended behind a first one and
\* returned
C19_Witness ==
    /\ bc_last.op = "bcs_append"
    /\ Len(headp) = 2
    /\ bc_ret = headp[2].id
    /\ headp[1].id < headp[2].id
    /\ headp[1].type = BC_DATA /\ headp[2].type = BC_RESERVE

\* the first node of the list whose finalize is a fatal error, or one past
\* the end of the list
RECURSIVE FirstFatal(_)
FirstFatal(i) ==
    IF i > Len(headp) THEN i
    ELSE IF bc_parser_finalize(headp[i]).fatal THEN i
    ELSE FirstFatal(i + 1)

\* C20: finalize_all finalizes the nodes in list order, each once, up to
\* the first node whose finalize is a fatal error; it aborts there and
\* finalizes no node behind it; without a fatal error every node is
\* finalized once; the list keeps its contents and order.
C20_FinalizeAllInOrder ==
    /\ [](bc_last.op = "bcs_parser_finalize" =>
            /\ fatal <=> FirstFatal(1) <= Len(headp)
            /\ arch_calls = [i \in 1..(FirstFatal(1) - 1) |->
                                <<"bc_parser_finalize", headp[i].id>>]
            /\ \A i, j \in 1..Len(arch_calls) :
                  i # j => arch_calls[i] # arch_calls[j])
    /\ [][BcOp("bcs_parser_finalize") => headp' = headp]_vars

\* C20 witness: the pass aborted at the first node, of an unknown kind, with
\* a node of the architecture behind it left alone
C20_Witness ==
    /\ bc_last.op = "bcs_parser_finalize"
    /\ fatal
    /\ Len(headp) = 2
    /\ ~ArchType(headp[1].type)
    /\ ArchType(headp[2].type)
    /\ arch_calls = << >>

\* C21: in every reachable state a symbol with the Valued flag has kind
\* Equ, and get_equ returns an expression for it.
C21_ValuedOnlyEqu ==
    \A sym \in TableSyms \cup nit :
        SYM_VALUED \in sym.status =>
            /\ sym.type = SYM_EQU
            /\ symrec_get_equ(sym) \in 1..nexpr

\* C22: the expression destructor is only ever given expressions that were
\* handed to define_equ, the backend-data destructor only payloads that
\* were handed to declare, each at most once; a label's section is never
\* given to a destructor.
C22_DestroysOnlyOwned ==
    /\ \A p \in DOMAIN expr_deleted :
          /\ expr_deleted[p] <= 1
          /\ expr_deleted[p] >= 1 => p \in 1..nexpr
    /\ \A d \in DOMAIN data_deleted :
          /\ data_deleted[d] <= 1
          /\ data_deleted[d] >= 1 => d \in 1..ndata
====
